---- MODULE Spec2Model ----
(***************************************************************************)
(* Model of compressed_tensors/utils/safetensors_load.py: the naming       *)
(* convention (merge_names / match_param_name), the weight-location        *)
(* resolver (get_weight_mappings), the nested grouping of a flat mapping   *)
(* (get_nested_weight_mappings / get_nested_mappings_from_state_dict) and  *)
(* the quantization-parameter filter.                                      *)
(*                                                                         *)
(* Python strings are sequences of one-character strings.  Python dicts    *)
(* are sequences of <<key, value>> pairs with distinct keys, in insertion  *)
(* order, because the code iterates over them.                             *)
(***************************************************************************)
EXTENDS Integers, Sequences, FiniteSets, TLC

VARIABLES
    op,                       \* the function that ran last ("idle" before any)
    full_name,                \* match_param_name: full_name
    param_name,               \* match_param_name: param_name / merge_names: child_name
    parent_name,              \* merge_names: parent_name (None until merge_names ran)
    state_dict,               \* get_nested_mappings_from_state_dict: state_dict
    params_to_nest,           \* params_to_nest of both grouping functions
    return_unmatched_params,  \* return_unmatched_params of both grouping functions
    passes,                   \* stacked grouping: the passes made so far
    fs,                       \* the file system: path -> entry
    path,                     \* path_to_model_or_tensors / model_path
    ret                       \* what the last call returned or raised

codecVars == <<full_name, param_name, parent_name>>
groupVars == <<state_dict, params_to_nest, return_unmatched_params>>
fsVars == <<fs, path>>

vars == <<op, codecVars, groupVars, passes, fsVars, ret>>

-----------------------------------------------------------------------------
(* Bounds *)

MaxNameLen == 4
MaxParamLen == 2
MaxParentLen == 2

\* The characters names are built from.  "." is the separator of the naming
\* convention and a wildcard of the pattern language; "\n" is the one
\* character the wildcard does not match.
Chars == {"a", "b", ".", "\n"}

Strings(n) == UNION {[1..k -> Chars] : k \in 0..n}

\* Python's None, as a value no string equals.
None == <<"<None>">>

Max(S) == CHOOSE x \in S : \A y \in S : y <= x

-----------------------------------------------------------------------------
(* NameCodec *)

\* One character of param_name, read as the pattern it is inside
\* r"^(.*)\." + param_name + r"$": "." matches any character but a newline,
\* every other character of Chars matches itself.
AtomMatches(p, c) == IF p = "." THEN c # "\n" ELSE c = p

\* Whether r"\." + param + r"$" matches name from position k+1 on.  "$"
\* matches at the end of the string and just before a newline that ends it.
TailMatches(name, k, param) ==
    LET n == Len(param) + 1
        rest == Len(name) - k
    IN  /\ \/ rest = n
           \/ rest = n + 1 /\ name[Len(name)] = "\n"
        /\ name[k + 1] = "."
        /\ \A i \in 1..Len(param) : AtomMatches(param[i], name[k + 1 + i])

\* The lengths the group "(.*)" can take in a match anchored at "^".
GroupLengths(name, param) ==
    {k \in 0..Len(name) :
        /\ \A i \in 1..k : name[i] # "\n"
        /\ TailMatches(name, k, param)}

\* re.findall(pattern, full_name): the group of the one anchored match, the
\* group being greedy.
match_param_name(name, param) ==
    LET ks == GroupLengths(name, param)
    IN  IF ks = {} THEN None ELSE SubSeq(name, 1, Max(ks))

merge_names(parent, child) == parent \o <<".">> \o child

-----------------------------------------------------------------------------
(* Python dicts: sequences of <<key, value>> pairs, keys distinct *)

DictKeys(d) == {d[i][1] : i \in DOMAIN d}

DictHas(d, k) == \E i \in DOMAIN d : d[i][1] = k

\* d[k]
DictGet(d, k) == d[CHOOSE i \in DOMAIN d : d[i][1] = k][2]

\* d[k] = v: a key the dict holds keeps its place, a new key goes last.
DictSet(d, k, v) ==
    IF DictHas(d, k)
    THEN [i \in DOMAIN d |-> IF d[i][1] = k THEN <<k, v>> ELSE d[i]]
    ELSE Append(d, <<k, v>>)

\* d.pop(k, None), for the dict that is left
DictPop(d, k) == SelectSeq(d, LAMBDA e : e[1] # k)

\* What a call gives its caller: a returned value, or a raised exception
\* and no value.
Return(v) == [exc |-> "", value |-> v]
Raise(e) == [exc |-> e]

-----------------------------------------------------------------------------
(* NameGrouper *)

\* "if module_path:" is false for None and for the empty string.
Truthy(module_path) == module_path # None /\ module_path # <<>>

\* The body of "if module_path:", lines 282-286 (and 239-243).
NestOne(nested, module_path, param, value) ==
    LET inner == IF DictHas(nested, module_path)
                 THEN DictGet(nested, module_path)
                 ELSE <<>>
    IN  DictSet(nested, module_path, DictSet(inner, param, value))

\* "for param_name in params_to_nest", from params[j] on, for one key: the
\* nested mapping and the flag matched when the loop ends.
RECURSIVE NestParamsBreak(_, _, _, _, _, _)
NestParamsBreak(nested, matched, key, value, params, j) ==
    IF j > Len(params) THEN [nested |-> nested, matched |-> matched]
    ELSE LET module_path == match_param_name(key, params[j])
         IN  IF Truthy(module_path)
             THEN [nested |-> NestOne(nested, module_path, params[j], value),
                   matched |-> TRUE]
             ELSE NestParamsBreak(nested, matched, key, value, params, j + 1)

RECURSIVE NestParams(_, _, _, _, _, _)
NestParams(nested, matched, key, value, params, j) ==
    IF j > Len(params) THEN [nested |-> nested, matched |-> matched]
    ELSE LET module_path == match_param_name(key, params[j])
         IN  IF Truthy(module_path)
             THEN NestParams(NestOne(nested, module_path, params[j], value),
                             TRUE, key, value, params, j + 1)
             ELSE NestParams(nested, matched, key, value, params, j + 1)

\* "for key in state_dict.keys()", from the i-th key on.
RECURSIVE StateDictLoop(_, _, _, _, _, _)
StateDictLoop(nested, unmatched, sd, params, flag, i) ==
    IF i > Len(sd) THEN <<nested, unmatched>>
    ELSE LET key == sd[i][1]
             r == NestParams(nested, FALSE, key, DictGet(sd, key), params, 1)
             unmatched1 == IF flag /\ ~r.matched
                           THEN DictSet(unmatched, key, DictGet(sd, key))
                           ELSE unmatched
         IN  StateDictLoop(r.nested, unmatched1, sd, params, flag, i + 1)

get_nested_mappings_from_state_dict(sd, params, flag) ==
    LET r == StateDictLoop(<<>>, <<>>, sd, params, flag, 1)
    IN  IF flag THEN r ELSE r[1]

-----------------------------------------------------------------------------
(* The file system and os.path *)

\* Paths are sequences of path tokens: "/" and names.
SAFE_WEIGHTS_NAME == <<"model.safetensors">>
SAFE_WEIGHTS_INDEX_NAME == <<"model.safetensors.index.json">>

\* The reserved key of a safetensors header.
MetadataKey == <<"_", "_", "m", "e", "t", "a", "d", "a", "t", "a", "_", "_">>

\* os.path.join(a, b)
ospath_join(a, b) ==
    IF b # <<>> /\ b[1] = "/" THEN b
    ELSE IF a = <<>> \/ a[Len(a)] = "/" THEN a \o b
    ELSE a \o <<"/">> \o b

\* A file system maps the paths that exist to [kind |-> "dir"] or to
\* [kind |-> "file", content |-> c], c being
\*   [fmt |-> "safetensors", header |-> dict]  a well-formed checkpoint file,
\*   [fmt |-> "truncated"]                     fewer than 8 bytes,
\*   [fmt |-> "garbage"]                       bytes that are not JSON,
\*   [fmt |-> "json", object |-> dict]         a JSON object (an index file).
ospath_exists(files, p) == p \in DOMAIN files

ospath_isfile(files, p) == p \in DOMAIN files /\ files[p].kind = "file"

\* open(p) followed by the parse fmt asks for.
ReadFile(files, p, fmt) ==
    IF ~ospath_exists(files, p) THEN Raise("FileNotFoundError")
    ELSE IF files[p].kind = "dir" THEN Raise("IsADirectoryError")
    ELSE LET c == files[p].content
         IN  IF c.fmt = "truncated" /\ fmt = "safetensors" THEN Raise("struct.error")
             ELSE IF c.fmt # fmt THEN Raise("JSONDecodeError")
             ELSE Return(c)

get_safetensors_header(files, p) ==
    LET r == ReadFile(files, p, "safetensors")
    IN  IF r.exc # "" THEN r ELSE Return(r.value.header)

-----------------------------------------------------------------------------
(* LocationResolver *)

\* "for key in header.keys(): header[key] = location", then
\* header.pop("__metadata__", None)
SingleFileLocations(header, location) ==
    DictPop([i \in DOMAIN header |-> <<header[i][1], location>>], MetadataKey)

\* "for key, value in header.items(): header[key] = os.path.join(path, value)"
FullPathsSkipped(p, header) == header

FullPaths(p, header) ==
    [i \in DOMAIN header |-> <<header[i][1], ospath_join(p, header[i][2])>>]

\* index = json.load(f); header = index["weight_map"]
ReadIndex(files, index_path) ==
    LET r == ReadFile(files, index_path, "json")
    IN  IF r.exc # "" THEN r
        ELSE IF ~DictHas(r.value.object, "weight_map") THEN Raise("KeyError")
        ELSE Return(DictGet(r.value.object, "weight_map"))

\* The header of the canonical file of a directory, lines 160-164.
CanonicalHeader(files, safetensors_path) ==
    LET h == get_safetensors_header(files, safetensors_path)
    IN  IF h.exc # "" THEN h
        ELSE Return(SingleFileLocations(h.value, SAFE_WEIGHTS_NAME))

\* The else branch up to the conversion to full paths, lines 157-174.
DirectoryHeaderIndexFirst(files, p) ==
    LET safetensors_path == ospath_join(p, SAFE_WEIGHTS_NAME)
        index_path == ospath_join(p, SAFE_WEIGHTS_INDEX_NAME)
    IN  IF ospath_exists(files, index_path) THEN ReadIndex(files, index_path)
        ELSE IF ospath_exists(files, safetensors_path)
        THEN CanonicalHeader(files, safetensors_path)
        ELSE Raise("ValueError")

DirectoryHeaderNotFoundEmpty(files, p) ==
    LET safetensors_path == ospath_join(p, SAFE_WEIGHTS_NAME)
        index_path == ospath_join(p, SAFE_WEIGHTS_INDEX_NAME)
    IN  IF ospath_exists(files, safetensors_path)
        THEN CanonicalHeader(files, safetensors_path)
        ELSE IF ospath_exists(files, index_path) THEN ReadIndex(files, index_path)
        ELSE Return(<<>>)

DirectoryHeader(files, p) ==
    LET safetensors_path == ospath_join(p, SAFE_WEIGHTS_NAME)
        index_path == ospath_join(p, SAFE_WEIGHTS_INDEX_NAME)
    IN  IF ospath_exists(files, safetensors_path)
        THEN CanonicalHeader(files, safetensors_path)
        ELSE IF ospath_exists(files, index_path) THEN ReadIndex(files, index_path)
        ELSE Raise("ValueError")

get_weight_mappings(files, p) ==
    IF ospath_isfile(files, p)
    THEN LET h == get_safetensors_header(files, p)
         IN  IF h.exc # "" THEN h
             ELSE Return(SingleFileLocations(h.value, p))
    ELSE LET h == DirectoryHeader(files, p)
         IN  IF h.exc # "" THEN h
             ELSE Return(FullPaths(p, h.value))

\* "for key, file_location in weight_mappings.items()", from the i-th item on.
RECURSIVE WeightMappingsLoopBreak(_, _, _, _, _, _)
WeightMappingsLoopBreak(nested, unmatched, wm, params, flag, i) ==
    IF i > Len(wm) THEN <<nested, unmatched>>
    ELSE LET key == wm[i][1]
             file_location == wm[i][2]
             r == NestParamsBreak(nested, FALSE, key, file_location, params, 1)
             unmatched1 == IF flag /\ ~r.matched
                           THEN DictSet(unmatched, key, file_location)
                           ELSE unmatched
         IN  WeightMappingsLoopBreak(r.nested, unmatched1, wm, params, flag, i + 1)

RECURSIVE WeightMappingsLoop(_, _, _, _, _, _)
WeightMappingsLoop(nested, unmatched, wm, params, flag, i) ==
    IF i > Len(wm) THEN <<nested, unmatched>>
    ELSE LET key == wm[i][1]
             file_location == wm[i][2]
             r == NestParams(nested, FALSE, key, file_location, params, 1)
             unmatched1 == IF flag /\ ~r.matched
                           THEN DictSet(unmatched, key, file_location)
                           ELSE unmatched
         IN  WeightMappingsLoop(r.nested, unmatched1, wm, params, flag, i + 1)

get_nested_weight_mappings(files, model_path, params, flag) ==
    LET weight_mappings == get_weight_mappings(files, model_path)
    IN  IF weight_mappings.exc # "" THEN weight_mappings
        ELSE LET r == WeightMappingsLoop(<<>>, <<>>, weight_mappings.value,
                                         params, flag, 1)
             IN  Return(IF flag THEN r ELSE r[1])

\* name.endswith(t)
EndsWith(s, t) ==
    /\ Len(s) >= Len(t)
    /\ SubSeq(s, Len(s) - Len(t) + 1, Len(s)) = t

is_quantization_param(name) ==
    \/ EndsWith(name, <<"_", "s", "c", "a", "l", "e">>)
    \/ EndsWith(name, <<"z", "e", "r", "o", "_", "p", "o", "i", "n", "t">>)
    \/ EndsWith(name, <<"g", "_", "i", "d", "x">>)

get_quantization_parameter_to_path_mapping(files, model_path) ==
    LET weight_mappings == get_weight_mappings(files, model_path)
    IN  IF weight_mappings.exc # "" THEN weight_mappings
        ELSE Return(SelectSeq(weight_mappings.value,
                              LAMBDA e : is_quantization_param(e[1])))

-----------------------------------------------------------------------------
(* The specification of the naming convention *)

InitCodec ==
    /\ op = "idle"
    /\ full_name \in Strings(MaxNameLen)
    /\ param_name \in Strings(MaxParamLen)
    /\ parent_name = None
    /\ state_dict = <<>>
    /\ params_to_nest = <<>>
    /\ return_unmatched_params = FALSE
    /\ passes = <<>>
    /\ fs = <<>>
    /\ path = <<>>
    /\ ret = None

MergeNames ==
    /\ op = "idle"
    /\ \E parent \in Strings(MaxParentLen) :
        /\ parent_name' = parent
        /\ full_name' = merge_names(parent, param_name)
    /\ op' = "merge_names"
    /\ UNCHANGED <<param_name, groupVars, passes, fsVars, ret>>

MatchParamName ==
    /\ op \in {"idle", "merge_names"}
    /\ ret' = match_param_name(full_name, param_name)
    /\ op' = "match_param_name"
    /\ UNCHANGED <<codecVars, groupVars, passes, fsVars>>

NextCodec == MergeNames \/ MatchParamName

SpecCodec == InitCodec /\ [][NextCodec]_vars

\* The match the naming convention describes: the prefix of name before a
\* closing "." + param, compared character by character.
LiteralMatch(name, param) ==
    IF EndsWith(name, <<".">> \o param)
    THEN SubSeq(name, 1, Len(name) - Len(param) - 1)
    ELSE None

\* C3: match_param_name succeeds exactly when full_name ends with the literal
\* "." + param_name, and then returns the prefix before it; otherwise None.
C3_LiteralMatch ==
    op = "match_param_name" =>
        /\ (ret # None) <=> EndsWith(full_name, <<".">> \o param_name)
        /\ ret = LiteralMatch(full_name, param_name)

\* C2: match_param_name(merge_names(e, s), s) = e for every non-empty e.
C2_RoundTrip ==
    (op = "match_param_name" /\ parent_name # None /\ parent_name # <<>>) =>
        ret = parent_name

-----------------------------------------------------------------------------
(* The specification of grouping an in-memory mapping *)

MaxKeys == 2
MaxParams == 2

\* Parameter names of a flat mapping: a name with no separator, a bare
\* suffix behind a separator, names of two entities, names that differ only
\* where a suffix has a ".", a name two suffixes end, a name with a newline
\* behind its suffix.
NamePool ==
    { <<"a">>, <<".", "a">>, <<"a", ".", "a">>, <<"a", ".", "b">>,
      <<"b", ".", "a">>, <<"a", ".", ".">>, <<"a", ".", ".", "a">>,
      <<"a", ".", "a", "\n">> }

\* Suffixes to nest: two plain ones, the separator alone, a dotted one.
ParamPool == { <<"a">>, <<"b">>, <<".">>, <<".", "a">> }

\* The code never looks at a value, so the i-th entry of an input mapping
\* holds a value of its own.
Tensor(i) == <<"tensor", i>>

Injective(f) == \A i, j \in DOMAIN f : i # j => f[i] # f[j]

Dicts(K, n) ==
    UNION {{[i \in 1..k |-> <<f[i], Tensor(i)>>] :
                f \in {g \in [1..k -> K] : Injective(g)}} : k \in 0..n}

ParamSeqs(n) == UNION {[1..k -> ParamPool] : k \in 0..n}

InitGroup ==
    /\ op = "idle"
    /\ full_name = <<>>
    /\ param_name = <<>>
    /\ parent_name = None
    /\ state_dict \in Dicts(NamePool, MaxKeys)
    /\ params_to_nest \in ParamSeqs(MaxParams)
    /\ return_unmatched_params \in BOOLEAN
    /\ passes = <<>>
    /\ fs = <<>>
    /\ path = <<>>
    /\ ret = None

GetNestedMappingsFromStateDict ==
    /\ op = "idle"
    /\ ret' = Return(get_nested_mappings_from_state_dict(
                        state_dict, params_to_nest, return_unmatched_params))
    /\ op' = "get_nested_mappings_from_state_dict"
    /\ UNCHANGED <<codecVars, groupVars, passes, fsVars>>

NextGroup == GetNestedMappingsFromStateDict

SpecGroup == InitGroup /\ [][NextGroup]_vars

\* The (entity, suffix) pairs a nested mapping has a value for.
NestedEntries(nested) ==
    UNION {{<<e, s>> : s \in DictKeys(DictGet(nested, e))} : e \in DictKeys(nested)}

NestedGet(nested, e, s) == DictGet(DictGet(nested, e), s)

Range(seq) == {seq[i] : i \in DOMAIN seq}

\* The entries of a nested mapping that a name was matched into.
Holders(nested, k) ==
    {es \in NestedEntries(nested) : match_param_name(k, es[2]) = es[1]}

MatchesSome(k, params) ==
    \E j \in DOMAIN params : Truthy(match_param_name(k, params[j]))

Grouped == op = "get_nested_mappings_from_state_dict"

\* The inputs on which the pattern match and the literal match give the same
\* answer for every name and suffix.
LiteralInputs(sd, params) ==
    \A k \in DictKeys(sd) : \A s \in Range(params) :
        match_param_name(k, s) = LiteralMatch(k, s)

\* C1 (as claimed): with return_unmatched every input name is in exactly one
\* place, the inner mapping of one entity or the unmatched mapping, with its
\* input value, and the result holds nothing else: no value is lost and none
\* is duplicated.  Stated for the inputs on which matching is literal, so
\* that pattern characters play no part in a violation.
C1_Partition ==
    (Grouped /\ return_unmatched_params
             /\ LiteralInputs(state_dict, params_to_nest)) =>
        LET nested == ret.value[1]
            unmatched == ret.value[2]
        IN  /\ \A k \in DictKeys(state_dict) :
                 \/ /\ DictHas(unmatched, k)
                    /\ DictGet(unmatched, k) = DictGet(state_dict, k)
                    /\ Holders(nested, k) = {}
                 \/ /\ ~DictHas(unmatched, k)
                    /\ Cardinality(Holders(nested, k)) = 1
                    /\ \A es \in Holders(nested, k) :
                         NestedGet(nested, es[1], es[2]) = DictGet(state_dict, k)
            /\ DictKeys(unmatched) \subseteq DictKeys(state_dict)
            /\ \A es \in NestedEntries(nested) :
                 \E k \in DictKeys(state_dict) : es \in Holders(nested, k)

\* C1 (amended): with return_unmatched the unmatched mapping holds exactly
\* the names no suffix matches, with their values; a matched name is entered
\* under every (entity, suffix) that matches it, so possibly several times;
\* every entry comes from an input name that matches it and carries the
\* value of the last such name in iteration order.
C1_Cover ==
    (Grouped /\ return_unmatched_params) =>
        LET nested == ret.value[1]
            unmatched == ret.value[2]
        IN  /\ DictKeys(unmatched) =
                 {k \in DictKeys(state_dict) : ~MatchesSome(k, params_to_nest)}
            /\ \A k \in DictKeys(unmatched) :
                 DictGet(unmatched, k) = DictGet(state_dict, k)
            /\ \A k \in DictKeys(state_dict) : \A j \in DOMAIN params_to_nest :
                 LET m == match_param_name(k, params_to_nest[j])
                 IN  Truthy(m) => <<m, params_to_nest[j]>> \in NestedEntries(nested)
            /\ \A es \in NestedEntries(nested) :
                 LET from == {i \in DOMAIN state_dict :
                                match_param_name(state_dict[i][1], es[2]) = es[1]}
                 IN  /\ es[1] # <<>>
                     /\ es[2] \in Range(params_to_nest)
                     /\ from # {}
                     /\ NestedGet(nested, es[1], es[2]) = state_dict[Max(from)][2]

\* C1 witness: a grouping with return_unmatched in which one name went into
\* two inner mappings and another name went to the unmatched mapping.
C1_Witness ==
    /\ Grouped /\ return_unmatched_params
    /\ LiteralInputs(state_dict, params_to_nest)
    /\ \E k \in DictKeys(state_dict) :
         Cardinality(Holders(ret.value[1], k)) >= 2
    /\ ret.value[2] # <<>>

Prefixes(k) == {SubSeq(k, 1, n) : n \in 0..Len(k)}

\* C9 (as claimed): e is an entity of the nested mapping exactly when e is
\* non-empty and some input name equals e + "." + s for a configured s; the
\* inner mapping of e has key s exactly when the input holds e + "." + s, with
\* that name's value; a bare suffix is reported unmatched.
C9_Shape ==
    Grouped =>
        LET nested == IF return_unmatched_params THEN ret.value[1] ELSE ret.value
            names == DictKeys(state_dict)
            suffixes == Range(params_to_nest)
        IN  /\ \A e \in DictKeys(nested) \cup UNION {Prefixes(k) : k \in names} :
                 (e \in DictKeys(nested)) <=>
                     (e # <<>> /\ \E s \in suffixes : merge_names(e, s) \in names)
            /\ \A e \in DictKeys(nested) :
                 /\ DictKeys(DictGet(nested, e)) \subseteq suffixes
                 /\ \A s \in suffixes :
                      /\ DictHas(DictGet(nested, e), s) <=> merge_names(e, s) \in names
                      /\ DictHas(DictGet(nested, e), s) =>
                           NestedGet(nested, e, s) = DictGet(state_dict, merge_names(e, s))
            /\ return_unmatched_params =>
                 \A k \in names :
                     (k \in suffixes \/ \E s \in suffixes : k = <<".">> \o s)
                         => DictHas(ret.value[2], k)

\* C9 and C3: on the inputs on which matching is literal the claimed shape
\* holds, so C9 fails through the pattern matching of C3 alone.
C9_ShapeLiteral == LiteralInputs(state_dict, params_to_nest) => C9_Shape

-----------------------------------------------------------------------------
(* The specification of stacked grouping: each pass groups what the pass
   before it left unmatched *)

MaxPasses == 2

Layer == <<"l", "a", "y", "e", "r">>
WeightScale == <<"w", "e", "i", "g", "h", "t", "_", "s", "c", "a", "l", "e">>
ZeroPoint == <<"z", "e", "r", "o", "_", "p", "o", "i", "n", "t">>
Bitmask == <<"b", "i", "t", "m", "a", "s", "k">>
Shape == <<"s", "h", "a", "p", "e">>

\* The flat mapping of a quantized and then sparsified layer.
StackedExample ==
    << <<merge_names(Layer, WeightScale), Tensor(1)>>,
       <<merge_names(Layer, ZeroPoint), Tensor(2)>>,
       <<merge_names(Layer, Bitmask), Tensor(3)>>,
       <<merge_names(Layer, Shape), Tensor(4)>> >>

QuantParams == <<WeightScale, ZeroPoint>>
SparseParams == <<Bitmask, Shape>>

InitStacked ==
    /\ op = "idle"
    /\ full_name = <<>>
    /\ param_name = <<>>
    /\ parent_name = None
    /\ state_dict \in Dicts(NamePool, MaxKeys) \cup {StackedExample}
    /\ params_to_nest = <<>>
    /\ return_unmatched_params = TRUE
    /\ passes = <<>>
    /\ fs = <<>>
    /\ path = <<>>
    /\ ret = None

\* One pass: get_nested_mappings_from_state_dict(remainder, S, True), the
\* remainder being the state dict or the unmatched mapping of the last pass.
StackedPass ==
    /\ Len(passes) < MaxPasses
    /\ \E S \in ParamSeqs(MaxParams) \cup {QuantParams, SparseParams} :
        LET input == IF passes = <<>> THEN state_dict
                     ELSE passes[Len(passes)].ret.value[2]
        IN  /\ params_to_nest' = S
            /\ ret' = Return(get_nested_mappings_from_state_dict(
                                input, S, return_unmatched_params))
            /\ passes' = Append(passes, [params |-> S, ret |-> ret'])
    /\ op' = "stacked_pass"
    /\ UNCHANGED <<codecVars, state_dict, return_unmatched_params, fsVars>>

NextStacked == StackedPass

SpecStacked == InitStacked /\ [][NextStacked]_vars

\* A nested mapping holds exactly the given names of M: each of them under
\* every (entity, suffix) it matches, with its value in M, and nothing else.
HoldsExactly(nested, names, params, M) ==
    /\ \A k \in names : \A s \in Range(params) :
         LET m == match_param_name(k, s)
         IN  Truthy(m) => /\ <<m, s>> \in NestedEntries(nested)
                          /\ NestedGet(nested, m, s) = DictGet(M, k)
    /\ \A es \in NestedEntries(nested) :
         \E k \in names : match_param_name(k, es[2]) = es[1]

\* C4 (as claimed): after grouping M by S1 and the unmatched remainder by
\* S2, the first nested mapping holds exactly the names that match S1, the
\* second those that match S2 and not S1, the remainder those that match
\* neither, each with its value in M; and the example gives the two nested
\* mappings of the layer and an empty remainder.
C4_Stacked ==
    Len(passes) = 2 =>
        LET M == state_dict
            S1 == passes[1].params
            S2 == passes[2].params
            first == passes[1].ret.value[1]
            second == passes[2].ret.value[1]
            remainder == passes[2].ret.value[2]
            in1 == {k \in DictKeys(M) : MatchesSome(k, S1)}
            in2 == {k \in DictKeys(M) : ~MatchesSome(k, S1) /\ MatchesSome(k, S2)}
            rest == {k \in DictKeys(M) : ~MatchesSome(k, S1) /\ ~MatchesSome(k, S2)}
        IN  /\ HoldsExactly(first, in1, S1, M)
            /\ HoldsExactly(second, in2, S2, M)
            /\ DictKeys(remainder) = rest
            /\ \A k \in rest : DictGet(remainder, k) = DictGet(M, k)
            /\ (M = StackedExample /\ S1 = QuantParams /\ S2 = SparseParams) =>
                 /\ first = << <<Layer, << <<WeightScale, Tensor(1)>>,
                                           <<ZeroPoint, Tensor(2)>> >> >> >>
                 /\ second = << <<Layer, << <<Bitmask, Tensor(3)>>,
                                            <<Shape, Tensor(4)>> >> >> >>
                 /\ remainder = <<>>

\* C4 and C3: on the inputs on which matching is literal the composition
\* holds, the example included, so C4 fails through the pattern matching of
\* C3 alone.
C4_StackedLiteral ==
    (Len(passes) = 2 /\ LiteralInputs(state_dict, passes[1].params)
                     /\ LiteralInputs(state_dict, passes[2].params))
        => C4_Stacked

\* The example of C4 is reached.
C4_ExampleReached ==
    /\ Len(passes) = 2
    /\ state_dict = StackedExample
    /\ passes[1].params = QuantParams
    /\ passes[2].params = SparseParams

-----------------------------------------------------------------------------
(* The specification of the functions that read a path *)

Dir == <<"d">>
CanonicalPath == ospath_join(Dir, SAFE_WEIGHTS_NAME)
IndexPath == ospath_join(Dir, SAFE_WEIGHTS_INDEX_NAME)

\* Keys of a checkpoint header: the reserved key, a weight, a quantization
\* parameter.
HeaderKeyPool == {MetadataKey, <<"a", ".", "a">>, merge_names(Layer, ZeroPoint)}

\* Keys of the weight_map of an index.
IndexKeyPool == {MetadataKey, <<"a", ".", "a">>, <<"a", ".", ".">>}

\* Shard file names of a weight_map: a relative and an absolute one.
ShardNames == {<<"f1">>, <<"/", "f2">>}

\* Suffixes the path-reading grouping is asked to nest.
PathParamPool == { <<"a">>, <<".">> }

Headers ==
    {[i \in DOMAIN d |-> <<d[i][1], <<"entry", i>>>>] : d \in Dicts(HeaderKeyPool, MaxKeys)}

WeightMaps ==
    UNION {{[i \in 1..k |-> <<f[i], g[i]>>] :
                f \in {h \in [1..k -> IndexKeyPool] : Injective(h)},
                g \in [1..k -> ShardNames]} : k \in 0..MaxKeys}

File(c) == [kind |-> "file", content |-> c]
Absent == [kind |-> "absent"]

CanonicalEntries ==
    {Absent, [kind |-> "dir"], File([fmt |-> "truncated"]), File([fmt |-> "garbage"])}
        \cup {File([fmt |-> "safetensors", header |-> h]) : h \in Headers}

IndexEntries ==
    {Absent, File([fmt |-> "garbage"]),
     File([fmt |-> "json", object |-> << <<"metadata", "total_size">> >>])}
        \cup {File([fmt |-> "json",
                    object |-> << <<"metadata", "total_size">>,
                                  <<"weight_map", w>> >>]) : w \in WeightMaps}

\* The directory Dir with an entry, or none, under each of the two names.
Directory(c, x) ==
    [p \in {Dir} \cup (IF c = Absent THEN {} ELSE {CanonicalPath})
                 \cup (IF x = Absent THEN {} ELSE {IndexPath})
        |-> IF p = Dir THEN [kind |-> "dir"]
            ELSE IF p = CanonicalPath THEN c ELSE x]

FileSystems ==
    {<<>>} \cup {Directory(c, x) : c \in CanonicalEntries, x \in IndexEntries}

InitResolve ==
    /\ op = "idle"
    /\ full_name = <<>>
    /\ param_name = <<>>
    /\ parent_name = None
    /\ state_dict = <<>>
    /\ params_to_nest = <<>>
    /\ return_unmatched_params = FALSE
    /\ passes = <<>>
    /\ fs \in FileSystems
    /\ path \in {Dir, CanonicalPath}
    /\ ret = None

GetWeightMappings ==
    /\ op = "idle"
    /\ ret' = get_weight_mappings(fs, path)
    /\ op' = "get_weight_mappings"
    /\ UNCHANGED <<codecVars, groupVars, passes, fsVars>>

GetNestedWeightMappings ==
    /\ op = "idle"
    /\ \E S \in UNION {[1..k -> PathParamPool] : k \in 0..MaxParams}, flag \in BOOLEAN :
        /\ params_to_nest' = S
        /\ return_unmatched_params' = flag
        /\ ret' = get_nested_weight_mappings(fs, path, S, flag)
    /\ op' = "get_nested_weight_mappings"
    /\ UNCHANGED <<codecVars, state_dict, passes, fsVars>>

GetQuantizationParameterToPathMapping ==
    /\ op = "idle"
    /\ ret' = get_quantization_parameter_to_path_mapping(fs, path)
    /\ op' = "get_quantization_parameter_to_path_mapping"
    /\ UNCHANGED <<codecVars, groupVars, passes, fsVars>>

NextResolve ==
    \/ GetWeightMappings
    \/ GetNestedWeightMappings
    \/ GetQuantizationParameterToPathMapping

SpecResolve == InitResolve /\ [][NextResolve]_vars

Resolved == op = "get_weight_mappings"

\* The header a well-formed checkpoint file at p holds.
HeaderAt(p) == fs[p].content.header

WellFormedCheckpoint(p) ==
    ospath_isfile(fs, p) /\ fs[p].content.fmt = "safetensors"

\* C5: when the directory holds a checkpoint file under the canonical name,
\* resolving the directory and resolving that file give the same mapping.
C5_SingleFileEquivalence ==
    (Resolved /\ ospath_isfile(fs, CanonicalPath)) =>
        /\ path = Dir => ret = get_weight_mappings(fs, CanonicalPath)
        /\ path = CanonicalPath => ret = get_weight_mappings(fs, Dir)

\* C5 witness: the directory was resolved, its canonical file has a header
\* with the reserved key and a weight, and an index lies beside it.
C5_Witness ==
    /\ Resolved /\ path = Dir
    /\ WellFormedCheckpoint(CanonicalPath)
    /\ DictHas(HeaderAt(CanonicalPath), MetadataKey)
    /\ Len(HeaderAt(CanonicalPath)) = 2
    /\ ospath_exists(fs, IndexPath)
    /\ ret.exc = "" /\ Len(ret.value) = 1

\* The mapping get_weight_mappings reads names from: the header of the file
\* it opens, or the weight_map of the index.
Consulted ==
    IF ospath_isfile(fs, path) THEN HeaderAt(path)
    ELSE IF ospath_exists(fs, ospath_join(path, SAFE_WEIGHTS_NAME))
    THEN HeaderAt(ospath_join(path, SAFE_WEIGHTS_NAME))
    ELSE DictGet(fs[ospath_join(path, SAFE_WEIGHTS_INDEX_NAME)].content.object,
                 "weight_map")

UsedIndex ==
    /\ ~ospath_isfile(fs, path)
    /\ ~ospath_exists(fs, ospath_join(path, SAFE_WEIGHTS_NAME))

\* C6 (as claimed): whichever branch fired, the returned mapping has no key
\* __metadata__ and has every other key of the consulted header or weight_map
\* exactly once.
C6_NoMetadata ==
    (Resolved /\ ret.exc = "") =>
        /\ ~DictHas(ret.value, MetadataKey)
        /\ \A k \in DictKeys(Consulted) \ {MetadataKey} :
             Cardinality({i \in DOMAIN ret.value : ret.value[i][1] = k}) = 1

\* C6, the two branches that read a header: there the reserved key is
\* dropped; the claim fails in the index branch alone.
C6_HeaderBranches == ~UsedIndex => C6_NoMetadata

\* C7: a directory with an index and no canonical file resolves to the keys
\* of the weight_map, each joined with the directory; a directory with the
\* canonical file resolves as if it had no index.
C7_ResolverCompleteness ==
    (Resolved /\ ~ospath_isfile(fs, path)) =>
        LET safetensors_path == ospath_join(path, SAFE_WEIGHTS_NAME)
            index_path == ospath_join(path, SAFE_WEIGHTS_INDEX_NAME)
        IN  /\ (/\ ~ospath_exists(fs, safetensors_path)
                /\ ospath_isfile(fs, index_path)
                /\ fs[index_path].content.fmt = "json"
                /\ DictHas(fs[index_path].content.object, "weight_map")) =>
                  LET weight_map == DictGet(fs[index_path].content.object, "weight_map")
                  IN  /\ ret.exc = ""
                      /\ DictKeys(ret.value) = DictKeys(weight_map)
                      /\ Len(ret.value) = Len(weight_map)
                      /\ \A k \in DictKeys(weight_map) :
                           DictGet(ret.value, k) = ospath_join(path, DictGet(weight_map, k))
            /\ ospath_exists(fs, safetensors_path) =>
                  /\ ret = get_weight_mappings(
                             [q \in DOMAIN fs \ {index_path} |-> fs[q]], path)
                  /\ WellFormedCheckpoint(safetensors_path) =>
                       /\ ret.exc = ""
                       /\ DictKeys(ret.value) =
                            DictKeys(HeaderAt(safetensors_path)) \ {MetadataKey}
                       /\ \A k \in DictKeys(ret.value) :
                            DictGet(ret.value, k) = safetensors_path

\* C7 witness: a directory with an index alone was resolved, the weight_map
\* naming two weights in two shard files.
C7_Witness ==
    /\ Resolved /\ path = Dir
    /\ ~ospath_exists(fs, CanonicalPath)
    /\ ospath_exists(fs, IndexPath)
    /\ ret.exc = "" /\ Len(ret.value) = 2
    /\ ret.value[1][2] # ret.value[2][2]

PathCalled ==
    op \in {"get_weight_mappings", "get_nested_weight_mappings",
            "get_quantization_parameter_to_path_mapping"}

NotFound ==
    /\ ~ospath_isfile(fs, path)
    /\ ~ospath_exists(fs, ospath_join(path, SAFE_WEIGHTS_NAME))
    /\ ~ospath_exists(fs, ospath_join(path, SAFE_WEIGHTS_INDEX_NAME))

MalformedHeader ==
    LET p == IF ospath_isfile(fs, path) THEN path
             ELSE ospath_join(path, SAFE_WEIGHTS_NAME)
    IN  ospath_exists(fs, p) /\ ~WellFormedCheckpoint(p)

MalformedIndex ==
    LET p == ospath_join(path, SAFE_WEIGHTS_INDEX_NAME)
    IN  /\ UsedIndex
        /\ ospath_exists(fs, p)
        /\ ~(/\ ospath_isfile(fs, p)
             /\ fs[p].content.fmt = "json"
             /\ DictHas(fs[p].content.object, "weight_map"))

\* C8: a path with neither file raises the not-found error; a failing
\* resolution (not found, malformed header, malformed index) hands back an
\* exception and no mapping, from each of the three functions; any other
\* resolution returns a value.
C8_AllOrNothing ==
    PathCalled =>
        /\ NotFound => ret = Raise("ValueError")
        /\ (NotFound \/ MalformedHeader \/ MalformedIndex) =>
             (ret.exc # "" /\ DOMAIN ret = {"exc"})
        /\ ~(NotFound \/ MalformedHeader \/ MalformedIndex) =>
             (ret.exc = "" /\ DOMAIN ret = {"exc", "value"})

\* C8 witness: a grouping or filtering call on a directory that has neither
\* file.
C8_Witness ==
    /\ op = "get_nested_weight_mappings"
    /\ path = Dir /\ ospath_exists(fs, Dir)
    /\ NotFound
    /\ return_unmatched_params

\* C10: get_nested_weight_mappings(p, S, flag) is
\* get_nested_mappings_from_state_dict(get_weight_mappings(p), S, flag) for a
\* resolvable p, and each function's result without unmatched is the first
\* component of its result with unmatched.
C10_SameGrouping ==
    (op = "get_nested_weight_mappings" /\ get_weight_mappings(fs, path).exc = "") =>
        LET wm == get_weight_mappings(fs, path).value
        IN  /\ ret = Return(get_nested_mappings_from_state_dict(
                                wm, params_to_nest, return_unmatched_params))
            /\ get_nested_weight_mappings(fs, path, params_to_nest, FALSE).value
                 = get_nested_weight_mappings(fs, path, params_to_nest, TRUE).value[1]
            /\ get_nested_mappings_from_state_dict(wm, params_to_nest, FALSE)
                 = get_nested_mappings_from_state_dict(wm, params_to_nest, TRUE)[1]

\* C10 witness: a grouping of a resolved path in which one name matched two
\* suffixes and another name matched none.
C10_Witness ==
    /\ op = "get_nested_weight_mappings"
    /\ return_unmatched_params
    /\ ret.exc = ""
    /\ ret.value[2] # <<>>
    /\ \E e \in DictKeys(ret.value[1]) : Len(DictGet(ret.value[1], e)) = 2

====
